---- MODULE Spec2Model ----
(***************************************************************************)
(* ComponentBuilder (juce_ComponentBuilder.cpp): a builder that keeps a    *)
(* tree of Components in step with a ValueTree.  The state tree, the       *)
(* registry of TypeHandlers and the component tree are the state; the      *)
(* listener callbacks, getManagedComponent, createComponent,               *)
(* registerTypeHandler, updateChildComponents and the destructor are the   *)
(* actions.                                                                *)
(***************************************************************************)
EXTENDS Integers, Sequences, FiniteSets, TLC

\* ------------------------------------------------------------------ bounds
\* MaxComps: components constructed in one run; MaxTypes: registrations;
\* MaxTreeNodes: nodes in the state tree at one time, the root included.
MaxComps == 3
MaxTypes == 2
MaxTreeNodes == 3

\* ------------------------------------------------- the declarative inputs
\* State nodes: node 0 is the root ValueTree handed to the constructor, the
\* others are the nodes a caller can add below it.  A node's type and its
\* "id" property are fixed per node; entry n+1 of each table is node n.
NodeIdTable == << "root", "a", "b", "a" >>
NodeTypeTable == << "panel", "panel", "button", "panel" >>
Nodes == 0 .. (Len(NodeIdTable) - 1)
RootNode == 0
NoNode == 0 - 1

\* TypeHandlers a caller can register: the type each one declares, and
\* whether its updateComponentFromState calls back into
\* ComponentBuilder::updateChildComponents (component, state).
HandlerTypeTable == << "panel", "button", "panel" >>
HandlerReconcilesTable == << TRUE, FALSE, FALSE >>
Handlers == 1 .. Len(HandlerTypeTable)

\* Component identities: a pass constructs at most one component per node,
\* so one operation never runs past MaxComps + Len(NodeIdTable).
Comps == 1 .. (MaxComps + Len(NodeIdTable))
NoComp == 0
NoHandler == 0

VARIABLES
    kids,        \* state tree: kids[n] = ordered children of node n
    noId,        \* state tree: the nodes that have no "id" property
    pending,     \* the callback the state tree is about to deliver
    types,       \* ComponentBuilder::types, in registration order
    hbuilder,    \* TypeHandler::builder per handler: TRUE when bound
    component,   \* ComponentBuilder::component (NoComp = nullptr)
    live,        \* components that exist
    cid,         \* Component::getComponentID
    cparent,     \* Component::getParentComponent
    ckids,       \* Component child list, index 1 = back-most, last = front
    nextComp,    \* identity of the next component constructed
    lastOp,      \* the operation that produced this state, with arguments
    creates,     \* createNewComponent calls made by lastOp
    updates,     \* updateComponentFromState calls made by lastOp
    passes,      \* updateChildComponents passes run by lastOp
    disposed,    \* components deleted by lastOp
    asserted,    \* a jassert failed during lastOp
    walk,        \* the nodes updateComponent was called for by lastOp
    returned,    \* the component lastOp handed back to its caller
    listening    \* the builder is a listener of the state tree

vars == << kids, noId, pending, types, hbuilder, component, live, cid, cparent,
           ckids, nextComp, lastOp, creates, updates, passes, disposed, asserted,
           walk, returned, listening >>

\* --------------------------------------------------------------- helpers
Range(s) == { s[i] : i \in 1 .. Len(s) }

RemoveAt(s, i) == SubSeq(s, 1, i - 1) \o SubSeq(s, i + 1, Len(s))

InsertAt(s, i, x) == SubSeq(s, 1, i - 1) \o << x >> \o SubSeq(s, i, Len(s))

IndexOf(s, x) == CHOOSE i \in 1 .. Len(s) : s[i] = x

\* ------------------------------------------------------------ state tree
\* state [idProperty].toString(): empty when the property is not there.
getStateId(n) == IF n \in noId THEN "" ELSE NodeIdTable[n + 1]

getType(n) == NodeTypeTable[n + 1]

\* ValueTree::getParent: NoNode stands for an invalid tree.
getParent(n) ==
    IF \E p \in Nodes : n \in Range(kids[p])
    THEN CHOOSE p \in Nodes : n \in Range(kids[p])
    ELSE NoNode

\* The nodes of the tree the builder listens to.
RECURSIVE InTree(_)
InTree(n) ==
    IF n = RootNode THEN TRUE
    ELSE IF getParent(n) = NoNode THEN FALSE
    ELSE InTree(getParent(n))

\* A node and every node below it.
RECURSIVE Below(_)
Below(n) == { n } \cup UNION { Below(kids[n][i]) : i \in 1 .. Len(kids[n]) }

\* ------------------------------------------------------------- registry
RECURSIVE ScanTypes(_, _, _)
ScanTypes(ts, i, targetType) ==
    IF i > Len(ts) THEN NoHandler
    ELSE IF HandlerTypeTable[ts[i]] = targetType THEN ts[i]
    ELSE ScanTypes(ts, i + 1, targetType)

\* (variant) the scan keeps going and returns the last match.
getHandlerForStateLast(s) ==
    LET hit == { i \in 1 .. Len(types) : HandlerTypeTable[types[i]] = getType(s) }
    IN  IF hit = {} THEN NoHandler
        ELSE types[CHOOSE i \in hit : \A j \in hit : j <= i]

getHandlerForState(s) == ScanTypes(types, 1, getType(s))

getNumHandlers == Len(types)

\* OwnedArray::operator[]: a null pointer for an index out of range.
getHandler(index) ==
    IF index >= 0 /\ index < Len(types) THEN types[index + 1] ELSE NoHandler

\* ------------------------------------------------------ component tree
\* A world is the component tree together with the record of what the
\* running operation has done so far.
World ==
    [ component |-> component, live |-> live, cid |-> cid,
      cparent |-> cparent, ckids |-> ckids, nextComp |-> nextComp,
      creates |-> << >>, updates |-> << >>, passes |-> << >>,
      disposed |-> {}, asserted |-> FALSE, walk |-> << >>,
      returned |-> NoComp ]

jassert(w, cond) == IF cond THEN w ELSE [ w EXCEPT !.asserted = TRUE ]

RECURSIVE Subtree(_, _)
Subtree(w, c) ==
    { c } \cup UNION { Subtree(w, w.ckids[c][i]) : i \in 1 .. Len(w.ckids[c]) }

\* Component destructor: the component leaves its parent's child list and
\* the children it owns are destroyed with it.
deleteComponent(w, c) ==
    LET gone == Subtree(w, c)
        p == w.cparent[c]
    IN  [ w EXCEPT
            !.live = @ \ gone,
            !.disposed = @ \cup gone,
            !.cid = [ x \in Comps |-> IF x \in gone THEN "" ELSE @[x] ],
            !.cparent = [ x \in Comps |-> IF x \in gone THEN NoComp ELSE @[x] ],
            !.ckids = [ x \in Comps |->
                          IF x \in gone THEN << >>
                          ELSE IF x = p THEN RemoveAt(@[x], IndexOf(@[x], c))
                          ELSE @[x] ] ]

\* Component::toFront (false): the component becomes the last child.
toFront(w, c) ==
    LET p == w.cparent[c]
    IN  IF p = NoComp THEN w
        ELSE [ w EXCEPT !.ckids[p] =
                 Append(RemoveAt(@, IndexOf(@, c)), c) ]

\* Component::toBehind (other): the component moves to just before other.
toBehind(w, c, other) ==
    LET p == w.cparent[c]
    IN  IF p = NoComp \/ c = other \/ other \notin Range(w.ckids[p]) THEN w
        ELSE LET rest == RemoveAt(w.ckids[p], IndexOf(w.ckids[p], c))
             IN  [ w EXCEPT !.ckids[p] = InsertAt(rest, IndexOf(rest, other), c) ]

\* TypeHandler::addNewComponentFromState: a new component, already a child
\* (the front-most one) of the parent it was given; its ID is not set yet.
addNewComponentFromState(w, h, n, parent) ==
    LET c == w.nextComp
    IN  [ w EXCEPT
            !.nextComp = @ + 1,
            !.live = @ \cup { c },
            !.cparent[c] = parent,
            !.ckids = [ x \in Comps |->
                          IF x = parent THEN Append(@[x], c) ELSE @[x] ] ]

\* (variant) the new component's ID is left as the handler made it.
createNewComponentNoId(w, h, n, parent) ==
    LET c == w.nextComp
        w1 == addNewComponentFromState(w, h, n, parent)
    IN  [ w1 EXCEPT
            !.creates = Append(@, [ h |-> h, n |-> n, parent |-> parent, c |-> c ]) ]

createNewComponent(w, h, n, parent) ==
    LET c == w.nextComp
        w1 == addNewComponentFromState(w, h, n, parent)
        w2 == jassert(w1, c \in w1.live /\ w1.cparent[c] = parent)
    IN  [ w2 EXCEPT
            !.cid[c] = getStateId(n),
            !.creates = Append(@, [ h |-> h, n |-> n, parent |-> parent, c |-> c ]) ]

\* (variant) the pool is never searched: nothing is found in it.
findInPoolNone(w, pool, compId, i) == 0

\* (variant) the ID is not compared: the last pooled component is taken.
findInPoolAny(w, pool, compId, i) == IF i < 1 THEN 0 ELSE i

\* (variant) the pool is searched from its first element.
findInPoolFirst(w, pool, compId, i) ==
    LET hit == { j \in 1 .. i : w.cid[pool[j]] = compId }
    IN  IF hit = {} THEN 0 ELSE CHOOSE j \in hit : \A k \in hit : j <= k

\* findComponentWithID (OwnedArray&, compId): index in the pool of the
\* component it removes and returns, scanning from the end; 0 when none.
RECURSIVE findInPool(_, _, _, _)
findInPool(w, pool, compId, i) ==
    IF i < 1 THEN 0
    ELSE IF w.cid[pool[i]] = compId THEN i
    ELSE findInPool(w, pool, compId, i - 1)

\* findComponentWithID (Component*, compId): the component itself, else
\* the first hit among its children taken from the last one down.
RECURSIVE findComponentWithID(_, _, _), findInChildren(_, _, _, _)
findComponentWithID(w, c, compId) ==
    IF w.cid[c] = compId THEN c
    ELSE findInChildren(w, c, compId, Len(w.ckids[c]))

\* (variant) the children are searched from the first one up.
RECURSIVE findInChildrenUp(_, _, _, _)
findInChildrenUp(w, c, compId, j) ==
    IF j > Len(w.ckids[c]) THEN NoComp
    ELSE LET child == findComponentWithID(w, w.ckids[c][j], compId)
         IN  IF child # NoComp THEN child
             ELSE findInChildrenUp(w, c, compId, j + 1)

findInChildrenForward(w, c, compId, i) == findInChildrenUp(w, c, compId, 1)

findInChildren(w, c, compId, i) ==
    IF i < 1 THEN NoComp
    ELSE LET child == findComponentWithID(w, w.ckids[c][i], compId)
         IN  IF child # NoComp THEN child
             ELSE findInChildren(w, c, compId, i - 1)

\* The loop of updateChildComponents over the children of the state node:
\* st.pool is existingComponents, st.order is componentsInOrder.
RECURSIVE childLoop(_, _, _, _)
childLoop(st, parent, children, i) ==
    IF i > Len(kids[children]) THEN st
    ELSE
      LET childState == kids[children][i]
          type == getHandlerForState(childState)
          w0 == jassert(st.w, type # NoHandler)
      IN  IF type = NoHandler
          THEN childLoop([ st EXCEPT !.w = w0 ], parent, children, i + 1)
          ELSE
            LET compId == getStateId(childState)
                w1 == jassert(w0, compId # "")
                hit == findInPool(w1, st.pool, compId, Len(st.pool))
            IN  IF hit # 0
                THEN childLoop([ w |-> w1,
                                 pool |-> RemoveAt(st.pool, hit),
                                 order |-> Append(st.order, st.pool[hit]) ],
                               parent, children, i + 1)
                ELSE childLoop([ w |-> createNewComponent(w1, type, childState, parent),
                                 pool |-> st.pool,
                                 order |-> Append(st.order, w1.nextComp) ],
                               parent, children, i + 1)

\* (variant) the unused components are let go of without deleting them.
deleteAllObjectsLeak(w, pool) == w

\* OwnedArray destructor: what is left in existingComponents is deleted.
RECURSIVE deleteAllObjects(_, _)
deleteAllObjects(w, pool) ==
    IF pool = << >> THEN w
    ELSE deleteAllObjects(deleteComponent(w, pool[Len(pool)]),
                          SubSeq(pool, 1, Len(pool) - 1))

RECURSIVE zOrderLoop(_, _, _)
zOrderLoop(w, order, i) ==
    IF i < 1 THEN w
    ELSE zOrderLoop(toBehind(w, order[i], order[i + 1]), order, i - 1)

\* (variant) the z-order step is left out.
zOrderSkipped(w, order) == w

zOrder(w, order) ==
    IF Len(order) > 0
    THEN zOrderLoop(toFront(w, order[Len(order)]), order, Len(order) - 1)
    ELSE w

updateChildComponents(w, parent, children) ==
    LET st == childLoop([ w |-> w, pool |-> w.ckids[parent], order |-> << >> ],
                        parent, children, 1)
        w1 == deleteAllObjects(st.w, st.pool)
        w2 == zOrder(w1, st.order)
    IN  [ w2 EXCEPT
            !.passes = Append(@, [ parent |-> parent, children |-> children,
                                   order |-> st.order ]) ]

\* TypeHandler::updateComponentFromState, as called at the end of
\* updateComponent: a handler of a container type refreshes the children
\* by calling updateChildComponents on the builder.
updateComponentFromState(w, h, c, n) ==
    LET w1 == [ w EXCEPT !.updates = Append(@, [ h |-> h, c |-> c, n |-> n ]) ]
    IN  IF HandlerReconcilesTable[h]
        THEN updateChildComponents(w1, c, n)
        ELSE w1

\* (variant) the two checks at the head of createComponent are left out.
createComponentUnchecked(w) ==
    LET type == getHandlerForState(RootNode)
    IN  IF type # NoHandler
        THEN [ createNewComponent(w, type, RootNode, NoComp)
                 EXCEPT !.returned = w.nextComp ]
        ELSE [ w EXCEPT !.returned = NoComp ]

\* The new component is handed back (returned); the builder does not
\* keep it.
createComponent(w) ==
    LET w1 == jassert(w, Len(types) > 0)
        type == getHandlerForState(RootNode)
        w2 == jassert(w1, type # NoHandler)
    IN  IF type # NoHandler
        THEN [ createNewComponent(w2, type, RootNode, NoComp)
                 EXCEPT !.returned = w2.nextComp ]
        ELSE [ w2 EXCEPT !.returned = NoComp ]

\* (variant) no cached root: every access builds the component again.
getManagedComponentNoCache(w) ==
    LET w1 == createComponent(w)
    IN  [ w1 EXCEPT !.component = w1.returned ]

getManagedComponent(w) ==
    IF w.component = NoComp
    THEN LET w1 == createComponent(w)
         IN  [ w1 EXCEPT !.component = w1.returned ]
    ELSE [ w EXCEPT !.returned = w.component ]

RECURSIVE updateComponent(_, _)

\* (variant) the builder itself refreshes the children of the component it
\* has just updated.
updateComponentAndChildren(w, state) ==
    LET w1 == getManagedComponent([ w EXCEPT !.walk = Append(@, state) ])
        topLevelComp == w1.returned
    IN  IF topLevelComp = NoComp THEN w1
        ELSE
          LET type == getHandlerForState(state)
              uid == getStateId(state)
          IN  IF type = NoHandler \/ uid = ""
              THEN IF getParent(state) # NoNode
                   THEN updateComponent(w1, getParent(state))
                   ELSE w1
              ELSE
                LET changedComp == findComponentWithID(w1, topLevelComp, uid)
                IN  IF changedComp # NoComp
                    THEN updateChildComponents(
                           updateComponentFromState(w1, type, changedComp, state),
                           changedComp, state)
                    ELSE w1

\* (variant) a node whose component is not found is treated like a node
\* without a handler: the search goes on with the parent node.
updateComponentClimbing(w, state) ==
    LET w1 == getManagedComponent([ w EXCEPT !.walk = Append(@, state) ])
        topLevelComp == w1.returned
    IN  IF topLevelComp = NoComp THEN w1
        ELSE
          LET type == getHandlerForState(state)
              uid == getStateId(state)
              changedComp == IF type = NoHandler \/ uid = "" THEN NoComp
                             ELSE findComponentWithID(w1, topLevelComp, uid)
          IN  IF changedComp = NoComp
              THEN IF getParent(state) # NoNode
                   THEN updateComponent(w1, getParent(state))
                   ELSE w1
              ELSE updateComponentFromState(w1, type, changedComp, state)

\* (variant) only a missing handler sends the search to the parent node;
\* an empty ID is looked up like any other.
updateComponentIgnoringId(w, state) ==
    LET w1 == getManagedComponent([ w EXCEPT !.walk = Append(@, state) ])
        topLevelComp == w1.returned
    IN  IF topLevelComp = NoComp THEN w1
        ELSE
          LET type == getHandlerForState(state)
              uid == getStateId(state)
          IN  IF type = NoHandler
              THEN IF getParent(state) # NoNode
                   THEN updateComponent(w1, getParent(state))
                   ELSE w1
              ELSE
                LET changedComp == findComponentWithID(w1, topLevelComp, uid)
                IN  IF changedComp # NoComp
                    THEN updateComponentFromState(w1, type, changedComp, state)
                    ELSE w1

\* (variant) the handler is called only when the node the callback named
\* is the one that was looked up, not after moving to a parent node.
updateComponentGuarded(w, state) ==
    LET w1 == getManagedComponent([ w EXCEPT !.walk = Append(@, state) ])
        topLevelComp == w1.returned
    IN  IF topLevelComp = NoComp THEN w1
        ELSE
          LET type == getHandlerForState(state)
              uid == getStateId(state)
          IN  IF type = NoHandler \/ uid = ""
              THEN IF getParent(state) # NoNode
                   THEN updateComponent(w1, getParent(state))
                   ELSE w1
              ELSE
                LET changedComp == findComponentWithID(w1, topLevelComp, uid)
                IN  IF changedComp # NoComp /\ Len(w1.walk) = 1
                    THEN updateComponentFromState(w1, type, changedComp, state)
                    ELSE w1

updateComponent(w, state) ==
    LET w1 == getManagedComponent([ w EXCEPT !.walk = Append(@, state) ])
        topLevelComp == w1.returned
    IN  IF topLevelComp = NoComp THEN w1
        ELSE
          LET type == getHandlerForState(state)
              uid == getStateId(state)
          IN  IF type = NoHandler \/ uid = ""
              THEN IF getParent(state) # NoNode
                   THEN updateComponent(w1, getParent(state))
                   ELSE w1
              ELSE
                LET changedComp == findComponentWithID(w1, topLevelComp, uid)
                IN  IF changedComp # NoComp
                    THEN updateComponentFromState(w1, type, changedComp, state)
                    ELSE w1

\* ---------------------------------------------------------- the actions
NoCall == [ op |-> "none", tree |-> NoNode, child |-> NoNode ]

\* ComponentBuilder (state): nothing registered, nothing built.
Constructed ==
    /\ kids = [ n \in Nodes |-> << >> ]
    /\ pending = NoCall
    /\ types = << >>
    /\ hbuilder = [ h \in Handlers |-> FALSE ]
    /\ component = NoComp
    /\ live = {}
    /\ cid = [ c \in Comps |-> "" ]
    /\ cparent = [ c \in Comps |-> NoComp ]
    /\ ckids = [ c \in Comps |-> << >> ]
    /\ nextComp = 1
    /\ lastOp = [ op |-> "construct", a |-> 0, b |-> 0 ]
    /\ creates = << >>
    /\ updates = << >>
    /\ passes = << >>
    /\ disposed = {}
    /\ asserted = FALSE
    /\ walk = << >>
    /\ returned = NoComp
    /\ listening = TRUE

\* Every node of the state tree has its "id" property.
Init == noId = {} /\ Constructed

\* The component tree and the operation's record after an operation.
Commit(w, op) ==
    /\ w.nextComp <= MaxComps + 1
    /\ component' = w.component
    /\ live' = w.live
    /\ cid' = w.cid
    /\ cparent' = w.cparent
    /\ ckids' = w.ckids
    /\ nextComp' = w.nextComp
    /\ creates' = w.creates
    /\ updates' = w.updates
    /\ passes' = w.passes
    /\ disposed' = w.disposed
    /\ asserted' = w.asserted
    /\ walk' = w.walk
    /\ returned' = w.returned
    /\ lastOp' = op
    /\ noId' = noId

\* The caller's edits of the state tree.  ValueTree delivers the callback
\* before the edit returns, so nothing else runs while one is pending.  A
\* caller adds single nodes, up to MaxTreeNodes in the tree, and takes
\* apart what it has removed.  An edit leaves the component tree alone.
addChild(tree, child, i) ==
    /\ listening
    /\ pending = NoCall
    /\ InTree(tree)
    /\ child # RootNode
    /\ getParent(child) = NoNode
    /\ kids[child] = << >>
    /\ Cardinality({ n \in Nodes : InTree(n) }) < MaxTreeNodes
    /\ i \in 1 .. Len(kids[tree]) + 1
    /\ kids' = [ kids EXCEPT ![tree] = InsertAt(@, i, child) ]
    /\ pending' = [ op |-> "childAdded", tree |-> tree, child |-> child ]
    /\ Commit(World, [ op |-> "addChild", a |-> tree, b |-> child ])
    /\ UNCHANGED << listening, types, hbuilder >>

removeChild(tree, i) ==
    /\ listening
    /\ pending = NoCall
    /\ InTree(tree)
    /\ i \in 1 .. Len(kids[tree])
    /\ kids' = [ n \in Nodes |->
                   IF n = tree THEN RemoveAt(kids[n], i)
                   ELSE IF n \in Below(kids[tree][i]) THEN << >>
                   ELSE kids[n] ]
    /\ pending' = [ op |-> "childRemoved", tree |-> tree, child |-> kids[tree][i] ]
    /\ Commit(World, [ op |-> "removeChild", a |-> tree, b |-> kids[tree][i] ])
    /\ UNCHANGED << listening, types, hbuilder >>

moveChild(tree, i, j) ==
    /\ listening
    /\ pending = NoCall
    /\ InTree(tree)
    /\ i \in 1 .. Len(kids[tree])
    /\ j \in 1 .. Len(kids[tree])
    /\ i # j
    /\ kids' = [ kids EXCEPT ![tree] = InsertAt(RemoveAt(@, i), j, @[i]) ]
    /\ pending' = [ op |-> "childOrderChanged", tree |-> tree, child |-> kids[tree][i] ]
    /\ Commit(World, [ op |-> "moveChild", a |-> tree, b |-> kids[tree][i] ])
    /\ UNCHANGED << listening, types, hbuilder >>

\* (variant) the handler is put at the head of the registry.
registerTypeHandlerFirst(type) ==
    /\ listening
    /\ pending = NoCall
    /\ Len(types) < MaxTypes
    /\ types' = << type >> \o types
    /\ hbuilder' = [ hbuilder EXCEPT ![type] = TRUE ]
    /\ Commit(jassert(World, ~hbuilder[type]),
              [ op |-> "register", a |-> type, b |-> 0 ])
    /\ UNCHANGED << listening, kids, pending >>

registerTypeHandler(type) ==
    /\ listening
    /\ pending = NoCall
    /\ Len(types) < MaxTypes
    /\ types' = Append(types, type)
    /\ hbuilder' = [ hbuilder EXCEPT ![type] = TRUE ]
    /\ Commit(jassert(World, ~hbuilder[type]),
              [ op |-> "register", a |-> type, b |-> 0 ])
    /\ UNCHANGED << listening, kids, pending >>

GetManagedComponent ==
    /\ listening
    /\ pending = NoCall
    /\ Commit(getManagedComponent(World), [ op |-> "get", a |-> 0, b |-> 0 ])
    /\ UNCHANGED << listening, kids, pending, types, hbuilder >>

valueTreePropertyChanged(tree) ==
    /\ listening
    /\ pending = NoCall
    /\ InTree(tree)
    /\ Commit(updateComponent(World, tree),
              [ op |-> "propertyChanged", a |-> tree, b |-> 0 ])
    /\ UNCHANGED << listening, kids, pending, types, hbuilder >>

valueTreeParentChanged(tree) ==
    /\ listening
    /\ pending = NoCall
    /\ InTree(tree)
    /\ Commit(updateComponent(World, tree),
              [ op |-> "parentChanged", a |-> tree, b |-> 0 ])
    /\ UNCHANGED << listening, kids, pending, types, hbuilder >>

\* (variant) the callback drops the children it has no handler for from
\* the state node.
valueTreeChildAddedPruning(tree) ==
    /\ listening
    /\ pending.op = "childAdded"
    /\ pending.tree = tree
    /\ pending' = NoCall
    /\ kids' = [ kids EXCEPT ![tree] = SelectSeq(@, LAMBDA n : getHandlerForState(n) # NoHandler) ]
    /\ Commit(updateComponent(World, tree),
              [ op |-> "childAdded", a |-> tree, b |-> pending.child ])
    /\ UNCHANGED << listening, types, hbuilder >>

valueTreeChildAdded(tree) ==
    /\ listening
    /\ pending.op = "childAdded"
    /\ pending.tree = tree
    /\ pending' = NoCall
    /\ Commit(updateComponent(World, tree),
              [ op |-> "childAdded", a |-> tree, b |-> pending.child ])
    /\ UNCHANGED << listening, kids, types, hbuilder >>

valueTreeChildRemoved(tree) ==
    /\ listening
    /\ pending.op = "childRemoved"
    /\ pending.tree = tree
    /\ pending' = NoCall
    /\ Commit(updateComponent(World, tree),
              [ op |-> "childRemoved", a |-> tree, b |-> pending.child ])
    /\ UNCHANGED << listening, kids, types, hbuilder >>

valueTreeChildOrderChanged(tree) ==
    /\ listening
    /\ pending.op = "childOrderChanged"
    /\ pending.tree = tree
    /\ pending' = NoCall
    /\ Commit(updateComponent(World, tree),
              [ op |-> "childOrderChanged", a |-> tree, b |-> pending.child ])
    /\ UNCHANGED << listening, kids, types, hbuilder >>

\* createComponent called by the user: the component is the caller's, the
\* builder keeps no pointer to it.
CreateComponent ==
    /\ listening
    /\ pending = NoCall
    /\ Commit(createComponent(World), [ op |-> "create", a |-> 0, b |-> 0 ])
    /\ UNCHANGED << listening, kids, pending, types, hbuilder >>

\* updateChildComponents called by the user: any component, any ValueTree.
UpdateChildComponents(parent, children) ==
    /\ listening
    /\ pending = NoCall
    /\ parent \in live
    /\ Commit(updateChildComponents(World, parent, children),
              [ op |-> "updateChildComponents", a |-> parent, b |-> children ])
    /\ UNCHANGED << listening, kids, pending, types, hbuilder >>

\* A handler that is in the registry more than once.
RegisteredTwice ==
    \E i, j \in 1 .. Len(types) : i # j /\ types[i] = types[j]

\* ~ComponentBuilder: the listener is removed, the ScopedPointer deletes the
\* managed component and the OwnedArray deletes the handlers.  A handler
\* that is in the array twice is deleted twice, which is undefined: the
\* run goes on (b = 0) or breaks (b = 1).
Destructor ==
    /\ listening
    /\ pending = NoCall
    /\ listening' = FALSE
    /\ types' = << >>
    /\ \E broken \in (IF RegisteredTwice THEN { 0, 1 } ELSE { 0 }) :
          Commit([ (IF component # NoComp
                    THEN deleteComponent(World, component)
                    ELSE World) EXCEPT !.component = NoComp ],
                 [ op |-> "destroy", a |-> 0, b |-> broken ])
    /\ UNCHANGED << kids, pending, hbuilder >>

Next ==
    \/ \E h \in Handlers : registerTypeHandler(h)
    \/ GetManagedComponent
    \/ CreateComponent
    \/ \E c \in Comps, n \in Nodes : UpdateChildComponents(c, n)
    \/ Destructor
    \/ \E p \in Nodes, n \in Nodes, i \in 1 .. Len(NodeIdTable) : addChild(p, n, i)
    \/ \E p \in Nodes, i \in 1 .. Len(NodeIdTable) : removeChild(p, i)
    \/ \E p \in Nodes, i \in 1 .. Len(NodeIdTable), j \in 1 .. Len(NodeIdTable) :
          moveChild(p, i, j)
    \/ \E n \in Nodes : valueTreePropertyChanged(n)
    \/ \E n \in Nodes : valueTreeParentChanged(n)
    \/ \E n \in Nodes : valueTreeChildAdded(n)
    \/ \E n \in Nodes : valueTreeChildRemoved(n)
    \/ \E n \in Nodes : valueTreeChildOrderChanged(n)

Spec == Init /\ [][Next]_vars

\* The registry on its own, without a state tree below the root.
NextRegistry ==
    \/ \E h \in Handlers : registerTypeHandler(h)
    \/ GetManagedComponent
    \/ CreateComponent
    \/ Destructor

SpecRegistry == Init /\ [][NextRegistry]_vars

\* State trees with nodes that lack the "id" property: the root, a node
\* below it, or a node and its child.
NoIdChoices == { { RootNode }, { 1 }, { 1, 3 } }

InitResolve == noId \in NoIdChoices /\ Constructed

SpecResolve == InitResolve /\ [][Next]_vars

\* ------------------------------------------------- vocabulary of the claims
TreeNodes == { n \in Nodes : InTree(n) }

Callbacks == { "propertyChanged", "parentChanged", "childAdded", "childRemoved",
               "childOrderChanged" }

StructuralCallbacks == { "childAdded", "childRemoved", "childOrderChanged" }

\* Registry positions whose handler declares the type of node s.
Matching(s) == { i \in 1 .. Len(types) : HandlerTypeTable[types[i]] = getType(s) }

HasHandler(s) == Matching(s) # {}

CompIds(seq) == [ i \in 1 .. Len(seq) |-> cid[seq[i]] ]

StateIds(seq) == [ i \in 1 .. Len(seq) |-> getStateId(seq[i]) ]

\* The component updateComponent finds for the id of node s.
Located(s) ==
    IF component = NoComp THEN NoComp
    ELSE findComponentWithID(World, component, getStateId(s))

Addressable(s) == HasHandler(s) /\ getStateId(s) # ""

AllHandled(seq) == \A i \in 1 .. Len(seq) : HasHandler(seq[i])

DistinctIds(seq) ==
    \A i, j \in 1 .. Len(seq) : i # j => getStateId(seq[i]) # getStateId(seq[j])

Reconciles(s) == HandlerReconcilesTable[getHandlerForState(s)]

\* ---------------------------------------------------------------- claims

\* C1 as stated: after a child is added, removed or moved below a state
\* node and the callback is delivered, the children of the component found
\* for that node carry, in order, the ids of the node's children.
C1_Original ==
    ( /\ lastOp.op \in StructuralCallbacks
      /\ Addressable(lastOp.a)
      /\ AllHandled(kids[lastOp.a])
      /\ Located(lastOp.a) # NoComp )
    => CompIds(ckids[Located(lastOp.a)]) = StateIds(kids[lastOp.a])

\* C1 (amended): the order is mirrored after the callback when the handler
\* matched for the parent node refreshes the children from its
\* updateComponentFromState; the callback itself only calls the handler.
C1_OrderMirroring ==
    ( /\ lastOp.op \in StructuralCallbacks
      /\ Addressable(lastOp.a)
      /\ Reconciles(lastOp.a)
      /\ AllHandled(kids[lastOp.a])
      /\ Located(lastOp.a) # NoComp )
    => /\ CompIds(ckids[Located(lastOp.a)]) = StateIds(kids[lastOp.a])
       /\ passes # << >>
       /\ passes[1].parent = Located(lastOp.a)

\* Two children were swapped and the two components followed.
C1_Witness ==
    /\ lastOp.op = "childOrderChanged"
    /\ passes # << >>
    /\ creates = << >>
    /\ Len(kids[lastOp.a]) >= 2
    /\ DistinctIds(kids[lastOp.a])
    /\ CompIds(ckids[Located(lastOp.a)]) = StateIds(kids[lastOp.a])

\* C2: when updateChildComponents (P, S) returns and every child of S has
\* a handler and the children's ids are non-empty and distinct, P's child
\* list is componentsInOrder exactly: one component per child of S, in
\* S's order, the last one front-most, each carrying its child's id.
C2_PassPostcondition ==
    \A i \in 1 .. Len(passes) :
      LET p == passes[i]
          S == kids[p.children]
      IN  ( /\ AllHandled(S)
            /\ DistinctIds(S)
            /\ \A j \in 1 .. Len(S) : getStateId(S[j]) # "" )
          => /\ ckids[p.parent] = p.order
             /\ Len(p.order) = Len(S)
             /\ \A j \in 1 .. Len(S) :
                   /\ p.order[j] \in live
                   /\ cparent[p.order[j]] = p.parent
                   /\ cid[p.order[j]] = getStateId(S[j])

\* A pass over a parent that had a child: it kept that one, built a new
\* one, and the new one went behind the old one.
C2_Witness ==
    /\ passes # << >>
    /\ Len(creates) = 1
    /\ creates[1].parent # NoComp
    /\ Len(passes[1].order) = 2
    /\ passes[1].order[1] = creates[1].c
    /\ ckids[passes[1].parent] = passes[1].order
    /\ DistinctIds(kids[passes[1].children])

\* C3 as stated: when a pass over (P, S) is followed at once by another
\* pass over the same (P, S), the second pass creates nothing, disposes of
\* nothing and leaves P's child list, objects and order, as it was.
C3_Original ==
    [][ ( /\ passes # << >>
          /\ passes' # << >>
          /\ passes'[1].parent = passes[1].parent
          /\ passes'[1].children = passes[1].children )
        => /\ creates' = << >>
           /\ disposed' = {}
           /\ ckids'[passes[1].parent] = ckids[passes[1].parent] ]_vars

\* C3 (amended): the second pass creates nothing and disposes of nothing,
\* P keeps the same child objects and the same sequence of ids; the
\* objects keep their positions when the ids of S's children are pairwise
\* distinct (the pool is searched from its end, so two children with one
\* id trade their components on every pass).
C3_Idempotence ==
    [][ ( /\ passes # << >>
          /\ passes' # << >>
          /\ passes'[1].parent = passes[1].parent
          /\ passes'[1].children = passes[1].children )
        => LET P == passes[1].parent
               S == kids[passes[1].children]
           IN  /\ creates' = << >>
               /\ disposed' = {}
               /\ live' = live
               /\ Range(ckids'[P]) = Range(ckids[P])
               /\ Len(ckids'[P]) = Len(ckids[P])
               /\ \A i \in 1 .. Len(ckids[P]) :
                     cid'[ckids'[P][i]] = cid[ckids[P][i]]
               /\ DistinctIds(S) => ckids'[P] = ckids[P] ]_vars

\* A pass over a parent with two children of distinct ids that found both
\* in place: nothing built, nothing deleted.
C3_Witness ==
    /\ lastOp.op = "propertyChanged"
    /\ passes # << >>
    /\ creates = << >>
    /\ disposed = {}
    /\ Len(passes[1].order) = 2
    /\ DistinctIds(kids[passes[1].children])
    /\ ckids[passes[1].parent] = passes[1].order

\* How many entries of the id sequence ids equal id.
CountId(ids, id) == Cardinality({ i \in 1 .. Len(ids) : ids[i] = id })

\* The child-removed callback for node t, which has a handler and an id,
\* finds a component for t whose children carry, in order, the ids of t's
\* children as they were before child x left; every child t has left has
\* a handler.
MirroredBeforeRemoval(t, x) ==
    /\ Addressable(t)
    /\ Located(t) # NoComp
    /\ AllHandled(kids[t])
    /\ \E i \in 1 .. Len(kids[t]) + 1 :
          CompIds(ckids[Located(t)]) = StateIds(InsertAt(kids[t], i, x))

\* C4 as stated: once child x of t is removed and child-removed is
\* delivered for t, a child of t's component carrying x's id being there,
\* exactly one instance, the one with x's id, has been released with
\* everything it owned, and no live instance carries x's id.
C4_Original ==
    [][ ( /\ lastOp'.op = "childRemoved"
          /\ Addressable(lastOp'.a)
          /\ Located(lastOp'.a) # NoComp
          /\ \E c \in Range(ckids[Located(lastOp'.a)]) :
                cid[c] = getStateId(lastOp'.b) )
        => /\ \E c \in Range(ckids[Located(lastOp'.a)]) :
                 /\ cid[c] = getStateId(lastOp'.b)
                 /\ disposed' = Subtree(World, c)
           /\ \A c \in live' : cid'[c] # getStateId(lastOp'.b) ]_vars

\* C4 (amended): the child-removed callback releases components only in a
\* pass, which runs only when the handler it calls refreshes the children.
\* Such a pass releases every pooled component it did not claim together
\* with all it owns, and nothing else, and leaves no reference to a
\* released component.  When t's handler refreshes the children and the
\* pool mirrored t's children before the removal, the pass runs over t's
\* component and releases exactly one pooled component with all it owns:
\* the one with x's id at the lowest index.  Afterwards as many children
\* of t's component carry x's id as children of t do: none when no child
\* left has that id, and one of two when one child left has it (a
\* component elsewhere in the tree may carry the id as well).
C4_DisposalCompleteness ==
    [][ lastOp'.op = "childRemoved" =>
          LET t == lastOp'.a
              x == lastOp'.b
          IN  /\ passes' = << >> => disposed' = {}
              /\ passes' # << >> =>
                    LET P == passes'[1].parent
                        pool == IF P \in live THEN ckids[P] ELSE << >>
                        unclaimed == Range(pool) \ Range(passes'[1].order)
                    IN  /\ HandlerReconcilesTable[updates'[1].h]
                        /\ disposed' = UNION { Subtree(World, c) : c \in unclaimed }
                        /\ live' = (live \cup { creates'[i].c : i \in 1 .. Len(creates') })
                                      \ disposed'
                        /\ \A c \in disposed' :
                              /\ cid'[c] = ""
                              /\ cparent'[c] = NoComp
                              /\ ckids'[c] = << >>
                        /\ \A c \in live' :
                              /\ cparent'[c] \notin disposed'
                              /\ Range(ckids'[c]) \cap disposed' = {}
                        /\ component' \notin disposed'
              /\ (MirroredBeforeRemoval(t, x) /\ Reconciles(t)) =>
                    LET P == Located(t)
                        pool == ckids[P]
                        withId == { i \in 1 .. Len(pool) : cid[pool[i]] = getStateId(x) }
                    IN  /\ passes' # << >>
                        /\ passes'[1].parent = P
                        /\ passes'[1].children = t
                        /\ creates' = << >>
                        /\ \E i \in withId :
                              /\ \A j \in withId : i <= j
                              /\ Range(pool) \ Range(passes'[1].order) = { pool[i] }
                              /\ disposed' = Subtree(World, pool[i])
                        /\ CountId(CompIds(ckids'[P]), getStateId(x))
                              = CountId(StateIds(kids[t]), getStateId(x))
                        /\ (\A i \in 1 .. Len(kids[t]) :
                               getStateId(kids[t][i]) # getStateId(x))
                           => \A c \in Range(ckids'[P]) : cid'[c] # getStateId(x) ]_vars

\* The removed node's component went, and the component it owned with it.
C4_Witness ==
    /\ lastOp.op = "childRemoved"
    /\ passes # << >>
    /\ Cardinality(disposed) = 2
    /\ creates = << >>
    /\ Cardinality(live) = 1

\* The instance of node n by position: the root component for the root,
\* else the one child of the parent's instance that carries n's id.
RECURSIVE InstanceOf(_)
InstanceOf(n) ==
    IF n = RootNode THEN component
    ELSE IF getParent(n) = NoNode THEN NoComp
    ELSE LET p == InstanceOf(getParent(n))
             hits == IF p = NoComp THEN {}
                     ELSE { c \in Range(ckids[p]) : cid[c] = getStateId(n) }
         IN  IF Cardinality(hits) = 1 THEN CHOOSE c \in hits : TRUE ELSE NoComp

\* Node n is a child of t whose id none of its siblings, nor node x, has.
UnrelatedSibling(n, t, x) ==
    /\ n # RootNode
    /\ getParent(n) = t
    /\ n # x
    /\ getStateId(n) # getStateId(x)
    /\ \A i \in 1 .. Len(kids[t]) :
          kids[t][i] # n => getStateId(kids[t][i]) # getStateId(n)

\* C5 as stated: the instance of node X is the same live object, with the
\* same parent and id, after a property-changed callback for X's node and
\* after a structural callback about a sibling of X.
C5_Original ==
    [][ lastOp'.op \in Callbacks =>
          \A n \in TreeNodes :
            ( /\ InstanceOf(n) # NoComp
              /\ \/ lastOp'.op = "propertyChanged" /\ lastOp'.a = n
                 \/ /\ lastOp'.op \in StructuralCallbacks
                    /\ UnrelatedSibling(n, lastOp'.a, lastOp'.b) )
            => /\ InstanceOf(n) \in live'
               /\ cparent'[InstanceOf(n)] = cparent[InstanceOf(n)]
               /\ cid'[InstanceOf(n)] = cid[InstanceOf(n)] ]_vars

\* C5 (amended): the same, provided the search by id from the root finds
\* the node's own instance: X's for a property-changed callback, the
\* parent's for a structural callback about a sibling.  An instance whose
\* id an instance met earlier in the search also carries is not protected.
C5_IdentityStability ==
    [][ lastOp'.op \in Callbacks =>
          \A n \in TreeNodes :
            ( /\ InstanceOf(n) # NoComp
              /\ \/ /\ lastOp'.op = "propertyChanged"
                    /\ lastOp'.a = n
                    /\ Addressable(n)
                    /\ Located(n) = InstanceOf(n)
                 \/ /\ lastOp'.op \in StructuralCallbacks
                    /\ UnrelatedSibling(n, lastOp'.a, lastOp'.b)
                    /\ HasHandler(n)
                    /\ Addressable(lastOp'.a)
                    /\ Located(lastOp'.a) = InstanceOf(lastOp'.a) )
            => /\ InstanceOf(n) \in live'
               /\ cparent'[InstanceOf(n)] = cparent[InstanceOf(n)]
               /\ cid'[InstanceOf(n)] = cid[InstanceOf(n)]
               /\ InstanceOf(n) \notin { creates'[i].c : i \in 1 .. Len(creates') } ]_vars

\* A sibling was removed and its component deleted; the pass kept the
\* component of the child that stayed.
C5_Witness ==
    /\ lastOp.op = "childRemoved"
    /\ passes # << >>
    /\ disposed # {}
    /\ creates = << >>
    /\ Len(passes[1].order) = 1
    /\ passes[1].order[1] \in live
    /\ InstanceOf(kids[lastOp.a][1]) = passes[1].order[1]

\* The node updateComponent settles on for node n: n itself or its nearest
\* ancestor that has a handler and a non-empty id; NoNode when there is none.
RECURSIVE Resolve(_)
Resolve(n) ==
    IF Addressable(n) THEN n
    ELSE IF getParent(n) = NoNode THEN NoNode
    ELSE Resolve(getParent(n))

\* No live component carries the id node n resolves to.
Stale(n) == Resolve(n) # NoNode /\ Located(Resolve(n)) = NoComp

\* C6 as stated: a callback for a node whose resolved id has no live
\* instance fires no assertion, calls no handler's updateComponentFromState
\* and leaves the component tree, the root included, as it was.
C6_Original ==
    [][ ( /\ lastOp'.op \in Callbacks
          /\ Stale(lastOp'.a) )
        => /\ ~asserted'
           /\ updates' = << >>
           /\ component' = component
           /\ live' = live
           /\ cid' = cid
           /\ cparent' = cparent
           /\ ckids' = ckids ]_vars

\* C6 (amended): once the root component exists such a callback is a
\* silent no-op.  While it does not exist the callback first builds it, as
\* getManagedComponent does, and asserts when no handler matches the root
\* node; nothing more happens unless the resolved id is the new root's.
C6_StaleNotification ==
    [][ ( /\ lastOp'.op \in Callbacks
          /\ Stale(lastOp'.a) )
        => /\ disposed' = {}
           /\ component # NoComp =>
                 /\ ~asserted'
                 /\ updates' = << >>
                 /\ creates' = << >>
                 /\ component' = component
                 /\ live' = live
                 /\ cid' = cid
                 /\ cparent' = cparent
                 /\ ckids' = ckids
           /\ (component = NoComp /\ ~HasHandler(RootNode)) =>
                 /\ asserted'
                 /\ updates' = << >>
                 /\ creates' = << >>
                 /\ component' = NoComp
                 /\ live' = live
           /\ (component = NoComp /\ HasHandler(RootNode)) =>
                 /\ component' = nextComp
                 /\ creates' # << >>
                 /\ creates'[1] = [ h |-> getHandlerForState(RootNode),
                                    n |-> RootNode, parent |-> NoComp,
                                    c |-> nextComp ]
                 /\ getStateId(Resolve(lastOp'.a)) # getStateId(RootNode) =>
                       /\ ~asserted'
                       /\ updates' = << >>
                       /\ Len(creates') = 1
                       /\ live' = live \cup { nextComp } ]_vars

\* The root exists, the notified node has a handler and an id, no
\* component carries that id, and the callback did nothing.
C6_Witness ==
    /\ lastOp.op \in Callbacks
    /\ component # NoComp
    /\ Addressable(lastOp.a)
    /\ Stale(lastOp.a)
    /\ updates = << >>
    /\ creates = << >>
    /\ ~asserted

\* The children of node S that getHandlerForState finds a handler for.
Handled(S) == SelectSeq(kids[S], HasHandler)

\* C9: in a pass over (P, S), for the k-th handled child of S a component
\* is created exactly when the pool of P's children holds no component
\* with the child's id that an earlier child has not claimed; a created
\* component comes from one createNewComponent call, has P as parent and
\* the child's id; a claimed one is a pooled component with that id and
\* stays P's child; no component is taken twice and nothing else is built.
C9_ReuseBeforeCreate ==
    [][ passes' # << >> =>
          LET P == passes'[1].parent
              S == passes'[1].children
              order == passes'[1].order
              pool == IF P \in live THEN ckids[P] ELSE << >>
              H == Handled(S)
              made == { creates'[i].c : i \in 1 .. Len(creates') }
          IN  /\ Len(order) = Len(H)
              /\ \A j, k \in 1 .. Len(order) : j # k => order[j] # order[k]
              /\ \A k \in 1 .. Len(H) :
                    LET id == getStateId(H[k])
                        earlier == CountId(StateIds(SubSeq(H, 1, k - 1)), id)
                        pooled == CountId(CompIds(pool), id)
                    IN  /\ order[k] \in made <=> earlier >= pooled
                        /\ order[k] \in made =>
                              /\ order[k] \notin live
                              /\ \E i \in 1 .. Len(creates') :
                                    creates'[i] =
                                      [ h |-> getHandlerForState(H[k]), n |-> H[k],
                                        parent |-> P, c |-> order[k] ]
                        /\ order[k] \notin made =>
                              /\ order[k] \in Range(pool)
                              /\ cid[order[k]] = id
                        /\ order[k] \in live'
                        /\ cparent'[order[k]] = P
                        /\ cid'[order[k]] = id
              /\ \A i \in 1 .. Len(creates') :
                    creates'[i].parent # NoComp =>
                      creates'[i].parent = P /\ creates'[i].c \in Range(order) ]_vars

\* One pass claimed the pooled component for one child and built a new
\* component for the other.
C9_Witness ==
    /\ passes # << >>
    /\ Len(passes[1].order) = 2
    /\ Len(creates) = 1
    /\ creates[1].parent = passes[1].parent
    /\ \E k \in 1 .. 2 :
          /\ passes[1].order[k] = creates[1].c
          /\ passes[1].order[3 - k] < creates[1].c
          /\ cparent[passes[1].order[3 - k]] = passes[1].parent

\* C8 as stated, for a handler that leaves the children alone: a pass runs
\* in a callback exactly when the callback reports a structural change.
C8_Original ==
    ( /\ lastOp.op \in Callbacks
      /\ updates # << >>
      /\ ~HandlerReconcilesTable[updates[1].h] )
    => (lastOp.op \in StructuralCallbacks <=> passes # << >>)

\* C8 (amended): every callback, whatever it reports, does the same: it
\* calls updateComponentFromState at most once, on the component located
\* for the resolved node with that node's handler, and a pass runs only
\* inside that call, when the handler is one that refreshes the children.
C8_CallbacksOnlyUpdate ==
    lastOp.op \in Callbacks =>
      /\ Len(updates) <= 1
      /\ Len(passes) <= Len(updates)
      /\ updates # << >> =>
            /\ updates[1].h = getHandlerForState(updates[1].n)
            /\ updates[1].c \in live
            /\ cid[updates[1].c] = getStateId(updates[1].n)
            /\ passes # << >> <=> HandlerReconcilesTable[updates[1].h]
      /\ passes # << >> =>
            /\ passes[1].parent = updates[1].c
            /\ passes[1].children = updates[1].n

\* A child-added callback found the parent's component, called its handler
\* and no pass ran.
C8_Witness ==
    /\ lastOp.op = "childAdded"
    /\ updates # << >>
    /\ updates[1].n = lastOp.a
    /\ passes = << >>
    /\ Len(kids[lastOp.a]) # Len(ckids[updates[1].c])

\* C7: an access while no root exists and a handler matches the root node
\* builds the root by one createNewComponent call with no parent for the
\* root state node, with the root node's id, and keeps it; an access while
\* the root exists builds nothing and returns the kept component; between
\* accesses no callback, pass or createComponent call replaces or deletes
\* the kept root; an access leaves the root unbuilt only when no handler
\* matches the root node.
C7_RootLifecycle ==
    [][ /\ lastOp'.op = "get" =>
              /\ returned' = component'
              /\ component # NoComp =>
                    /\ creates' = << >>
                    /\ component' = component
                    /\ live' = live
                    /\ cid' = cid
                    /\ cparent' = cparent
                    /\ ckids' = ckids
              /\ (component = NoComp /\ HasHandler(RootNode)) =>
                    /\ component' = nextComp
                    /\ component' \notin live
                    /\ live' = live \cup { component' }
                    /\ creates' = << [ h |-> getHandlerForState(RootNode),
                                       n |-> RootNode, parent |-> NoComp,
                                       c |-> component' ] >>
                    /\ cid'[component'] = getStateId(RootNode)
                    /\ cparent'[component'] = NoComp
              /\ (component = NoComp /\ ~HasHandler(RootNode)) =>
                    /\ component' = NoComp
                    /\ creates' = << >>
        /\ (component # NoComp /\ lastOp'.op # "destroy") =>
              /\ component' = component
              /\ component \in live'
              /\ cid'[component] = getStateId(RootNode)
              /\ cparent'[component] = NoComp
              /\ lastOp'.op # "create" =>
                    \A i \in 1 .. Len(creates') : creates'[i].n # RootNode
      ]_vars

\* A later access, after other components were built, returned the cached root.
C7_Witness ==
    /\ lastOp.op = "get"
    /\ component # NoComp
    /\ returned = component
    /\ creates = << >>
    /\ Cardinality(live) >= 2

\* C10: getHandlerForState returns the matching handler registered first,
\* and none exactly when no registered handler declares the node's type;
\* the handler getManagedComponent builds the root with is that one.
C10_Lookup ==
    /\ \A s \in Nodes :
          /\ getHandlerForState(s) = NoHandler <=> Matching(s) = {}
          /\ Matching(s) # {} =>
                \E i \in Matching(s) :
                  /\ getHandlerForState(s) = types[i]
                  /\ \A j \in Matching(s) : i <= j
    /\ (lastOp.op \in { "get", "create" } /\ creates # << >>) =>
          \E i \in Matching(RootNode) :
            /\ creates[1].h = types[i]
            /\ \A j \in Matching(RootNode) : i <= j

\* Two different handlers of the root's type are registered and the root
\* was built with the one registered first.
C10_Witness ==
    /\ lastOp.op = "get"
    /\ creates # << >>
    /\ \E i, j \in Matching(RootNode) :
          i < j /\ types[i] # types[j] /\ creates[1].h = types[i]

\* How often handler h is in the registry.
TimesRegistered(h) == Cardinality({ i \in 1 .. Len(types) : types[i] = h })

\* C11 as stated: a handler that is already bound cannot be registered
\* again, so no handler is ever in the registry more than once.
C11_Original == \A h \in Handlers : TimesRegistered(h) <= 1

\* A handler was registered a second time: the assertion fired and the
\* handler is in the registry twice.
C11_Witness ==
    /\ lastOp.op = "register"
    /\ asserted
    /\ TimesRegistered(lastOp.a) = 2
    /\ hbuilder[lastOp.a]

\* C19: registering an unbound handler binds it and appends it: the count
\* grows by one, the last handler is the new one, every earlier index and
\* every other binding is as before, and getHandler returns none for an
\* index outside 0 .. count - 1.
C19_RegistrationEffect ==
    [][ (lastOp'.op = "register" /\ ~hbuilder[lastOp'.a]) =>
          \E count \in 1 .. MaxTypes + 1 :
            /\ count = getNumHandlers'
            /\ count = getNumHandlers + 1
            /\ getHandler(count - 1)' = lastOp'.a
            /\ \A i \in 0 .. count - 2 : getHandler(i)' = getHandler(i)
            /\ hbuilder'[lastOp'.a]
            /\ \A h \in Handlers : h # lastOp'.a => hbuilder'[h] = hbuilder[h]
            /\ ~asserted'
            /\ getHandler(0 - 1)' = NoHandler
            /\ \A i \in count .. MaxTypes + 1 : getHandler(i)' = NoHandler
      ]_vars

\* A second, different handler was registered and sits behind the first.
C19_Witness ==
    /\ lastOp.op = "register"
    /\ ~asserted
    /\ getNumHandlers = 2
    /\ getHandler(1) = lastOp.a
    /\ getHandler(0) # lastOp.a
    /\ getHandler(2) = NoHandler

C13_MissingHandler ==
    [][ /\ ( /\ \/ lastOp'.op \in Callbacks \cup { "get" } /\ component = NoComp
                \/ lastOp'.op = "create"
             /\ (getNumHandlers = 0 \/ ~HasHandler(RootNode)) )
           => /\ asserted'
              /\ component' = component
              /\ returned' = NoComp
              /\ creates' = << >>
              /\ live' = live
        /\ ( /\ passes' # << >>
             /\ ~AllHandled(kids[passes'[1].children]) )
           => /\ asserted'
              /\ Len(passes'[1].order) = Len(Handled(passes'[1].children))
              /\ Len(passes'[1].order) < Len(kids[passes'[1].children])
              /\ \A i \in 1 .. Len(creates') : HasHandler(creates'[i].n)
      ]_vars

\* A pass met a child with no handler: the assertion fired and the child
\* got no component.
C13_Witness ==
    /\ passes # << >>
    /\ asserted
    /\ ~AllHandled(kids[passes[1].children])
    /\ Len(passes[1].order) < Len(kids[passes[1].children])
    /\ Len(ckids[passes[1].parent]) = Len(passes[1].order)

\* C14: root access, createComponent, registration, the five callbacks
\* with the passes run in them, a pass called directly and the destructor
\* leave the state tree as it is: the same children in the same order
\* under every node, and every node with the id it had.
C14_StateTreeUntouched ==
    [][ lastOp'.op \in Callbacks \cup { "get", "create", "register",
                                        "updateChildComponents", "destroy" }
        => kids' = kids /\ noId' = noId ]_vars

\* A callback ran a pass that built and deleted components, and the state
\* node it ran over has its children.
C14_Witness ==
    /\ lastOp.op \in Callbacks
    /\ passes # << >>
    /\ creates # << >>
    /\ disposed # {}
    /\ kids[passes[1].children] # << >>

\* The component tree is the same before and after the step.
TreeUnchanged ==
    /\ component' = component
    /\ live' = live
    /\ cid' = cid
    /\ cparent' = cparent
    /\ ckids' = ckids

\* C15 as stated, last part: when no node from N up to the root has both
\* a handler and a non-empty id, the callback calls no handler's
\* updateComponentFromState and leaves the component tree as it was.
C15_Original ==
    [][ ( /\ lastOp'.op \in Callbacks
          /\ Resolve(lastOp'.a) = NoNode )
        => /\ updates' = << >>
           /\ TreeUnchanged ]_vars

\* C15 (amended): updateComponent is called for N, then for the parent of
\* a node that lacks a handler or an id, never twice for a node, and stops
\* at the nearest node that has both, the only node a handler is called
\* for, or at the root.  When no node qualifies no handler is called and
\* the component tree is as it was, except that a root component that did
\* not exist yet is built first if a handler matches the root node; when
\* the root cannot be built the walk ends at N.
C15_Resolution ==
    [][ lastOp'.op \in Callbacks =>
          \E len \in 1 .. Cardinality(Nodes) :
            /\ len = Len(walk')
            /\ walk'[1] = lastOp'.a
            /\ \A i \in 1 .. len - 1 :
                  /\ ~Addressable(walk'[i])
                  /\ walk'[i + 1] = getParent(walk'[i])
            /\ \A i, j \in 1 .. len : i # j => walk'[i] # walk'[j]
            /\ component' = NoComp => len = 1 /\ updates' = << >>
            /\ (component' # NoComp /\ Resolve(lastOp'.a) # NoNode) =>
                  /\ walk'[len] = Resolve(lastOp'.a)
                  /\ \A i \in 1 .. Len(updates') :
                        updates'[i].n = Resolve(lastOp'.a)
            /\ (component' # NoComp /\ Resolve(lastOp'.a) = NoNode) =>
                  /\ walk'[len] = RootNode
                  /\ updates' = << >>
                  /\ passes' = << >>
                  /\ disposed' = {}
                  /\ component # NoComp => TreeUnchanged /\ creates' = << >>
                  /\ component = NoComp =>
                        /\ live' = live \cup { component' }
                        /\ Len(creates') = 1
                        /\ creates'[1].n = RootNode
                        /\ creates'[1].parent = NoComp ]_vars

\* A callback for a node without an id, below a node without an id: the
\* walk went up two levels and the root's handler was called.
C15_Witness ==
    /\ lastOp.op \in Callbacks
    /\ Len(walk) = 3
    /\ getStateId(walk[1]) = ""
    /\ getStateId(walk[2]) = ""
    /\ walk[3] = RootNode
    /\ Len(updates) = 1
    /\ updates[1].n = RootNode

\* C16 as stated: the handler's updateComponentFromState is called only
\* for the node the callback named; after the walk moved up to a parent
\* node it is not called.
C16_Original ==
    [][ lastOp'.op \in Callbacks =>
          \A i \in 1 .. Len(updates') : updates'[i].n = lastOp'.a ]_vars

\* C16 (amended): whether or not the walk moved up, the handler found for
\* the resolved node is called once, with the component located for that
\* node's id and with that node, exactly when such a component exists.
C16_UpdateAfterResolve ==
    [][ ( /\ lastOp'.op \in Callbacks
          /\ Resolve(lastOp'.a) # NoNode )
        => \E R \in Nodes :
             /\ R = Resolve(lastOp'.a)
             /\ Len(updates') <= 1
             /\ component # NoComp =>
                   /\ updates' # << >> <=> Located(R) # NoComp
                   /\ updates' # << >> =>
                         updates'[1] = [ h |-> getHandlerForState(R),
                                         c |-> Located(R), n |-> R ]
             /\ component = NoComp =>
                   /\ updates' # << >> <=>
                         (component' # NoComp /\ getStateId(R) = getStateId(RootNode))
                   /\ updates' # << >> =>
                         updates'[1] = [ h |-> getHandlerForState(R),
                                         c |-> component', n |-> R ] ]_vars

\* The callback named a node that has no id; the walk moved to its parent
\* and the parent's handler was called with the parent's component.
C16_Witness ==
    /\ lastOp.op \in Callbacks
    /\ Len(walk) = 2
    /\ getStateId(walk[1]) = ""
    /\ HasHandler(walk[1])
    /\ Len(updates) = 1
    /\ updates[1].n = walk[2]
    /\ updates[1].n # lastOp.a
    /\ cid[updates[1].c] = getStateId(walk[2])

\* The components below and including c, parents before children, the
\* children of a component taken from index 0 up.
RECURSIVE Preorder(_), PreorderFrom(_, _)
Preorder(c) == << c >> \o PreorderFrom(ckids[c], 1)

PreorderFrom(cs, i) ==
    IF i > Len(cs) THEN << >> ELSE Preorder(cs[i]) \o PreorderFrom(cs, i + 1)

\* The same with the children taken from the last index down.
RECURSIVE ReversePreorder(_), ReversePreorderFrom(_, _)
ReversePreorder(c) == << c >> \o ReversePreorderFrom(ckids[c], Len(ckids[c]))

ReversePreorderFrom(cs, i) ==
    IF i < 1 THEN << >>
    ELSE ReversePreorder(cs[i]) \o ReversePreorderFrom(cs, i - 1)

\* The first component of the sequence that carries the id; NoComp if none.
FirstWithId(seq, id) ==
    LET hit == { i \in 1 .. Len(seq) : cid[seq[i]] = id }
    IN  IF hit = {} THEN NoComp
        ELSE seq[CHOOSE i \in hit : \A j \in hit : i <= j]

\* C17 as stated: the component a callback hands to the handler is the
\* first one with the resolved node's id in a depth-first walk from the
\* root that takes the children from index 0 up.
C17_Original ==
    [][ ( /\ lastOp'.op \in Callbacks
          /\ component # NoComp
          /\ updates' # << >> )
        => updates'[1].c =
              FirstWithId(Preorder(component), getStateId(updates'[1].n)) ]_vars

\* C17 (amended): it is the first one in the depth-first walk from the
\* root that takes a component before its children and the children from
\* the last index (the front-most) down to index 0; a handler is called
\* exactly when that walk meets the id.
C17_LookupOrder ==
    [][ ( /\ lastOp'.op \in Callbacks
          /\ component # NoComp )
        => /\ updates' # << >> =>
                 updates'[1].c = FirstWithId(ReversePreorder(component),
                                             getStateId(updates'[1].n))
           /\ \A s \in Nodes :
                 Located(s) = FirstWithId(ReversePreorder(component), getStateId(s))
           /\ Resolve(lastOp'.a) # NoNode =>
                 ( updates' # << >> <=>
                     FirstWithId(ReversePreorder(component),
                                 getStateId(Resolve(lastOp'.a))) # NoComp ) ]_vars

\* Two children of one component carry the same id and the handler was
\* called with the one at the higher index.
C17_Witness ==
    /\ lastOp.op \in Callbacks
    /\ updates # << >>
    /\ cparent[updates[1].c] # NoComp
    /\ \E i, j \in 1 .. Len(ckids[cparent[updates[1].c]]) :
          /\ i < j
          /\ ckids[cparent[updates[1].c]][j] = updates[1].c
          /\ cid[ckids[cparent[updates[1].c]][i]] = cid[updates[1].c]

\* The pooled components with the id that the children before the k-th
\* handled child have not taken, as indices into the pool.
Unclaimed(pool, order, k, id) ==
    { i \in 1 .. Len(pool) :
        /\ cid[pool[i]] = id
        /\ \A j \in 1 .. k - 1 : order[j] # pool[i] }

\* C18 as stated: a child of S whose id several pooled components carry
\* claims the one that comes first in P's child order.
C18_Original ==
    [][ passes' # << >> =>
          LET P == passes'[1].parent
              S == passes'[1].children
              order == passes'[1].order
              pool == IF P \in live THEN ckids[P] ELSE << >>
          IN  \A k \in 1 .. Len(order) :
                LET free == Unclaimed(pool, order, k, getStateId(Handled(S)[k]))
                IN  free # {} =>
                      \E i \in free :
                        /\ order[k] = pool[i]
                        /\ \A j \in free : i <= j ]_vars

\* C18 (amended): it claims the one that comes last in P's child order
\* among those not yet claimed; no assertion fires on account of the
\* duplicate ids, and the pooled components nobody claims are deleted.
C18_DuplicateSiblings ==
    [][ passes' # << >> =>
          LET P == passes'[1].parent
              S == passes'[1].children
              order == passes'[1].order
              pool == IF P \in live THEN ckids[P] ELSE << >>
          IN  /\ \A k \in 1 .. Len(order) :
                    LET free == Unclaimed(pool, order, k, getStateId(Handled(S)[k]))
                    IN  free # {} =>
                          \E i \in free :
                            /\ order[k] = pool[i]
                            /\ \A j \in free : j <= i
              /\ ( /\ AllHandled(kids[S])
                   /\ \A j \in 1 .. Len(kids[S]) : getStateId(kids[S][j]) # ""
                   /\ component # NoComp )
                 => ~asserted'
              /\ \A i \in 1 .. Len(pool) :
                    pool[i] \notin Range(order) => pool[i] \in disposed' ]_vars

\* Two pooled components carried the id of the one child left: the pass
\* kept the one at the higher index and deleted the other.
C18_Witness ==
    /\ lastOp.op = "childRemoved"
    /\ passes # << >>
    /\ creates = << >>
    /\ ~asserted
    /\ Len(passes[1].order) = 1
    /\ Cardinality(disposed) = 1
    /\ getStateId(lastOp.b) = cid[passes[1].order[1]]
    /\ \A c \in disposed : c < passes[1].order[1]

\* C20: in a pass over P every component that was a child of P ends up
\* either in componentsInOrder, once, or deleted, never both; the
\* components in componentsInOrder are alive and children of P when the
\* z-order step runs, and are P's children, in that order, after it.
C20_PoolPartition ==
    [][ passes' # << >> =>
          LET P == passes'[1].parent
              order == passes'[1].order
              pool == IF P \in live THEN ckids[P] ELSE << >>
          IN  /\ \A i \in 1 .. Len(pool) :
                    (pool[i] \in Range(order)) # (pool[i] \in disposed')
              /\ \A j, k \in 1 .. Len(order) : j # k => order[j] # order[k]
              /\ Range(order) \cap disposed' = {}
              /\ \A k \in 1 .. Len(order) :
                    /\ order[k] \in live'
                    /\ cparent'[order[k]] = P
                    /\ order[k] \in Range(pool) \/ order[k] \notin live
              /\ ckids'[P] = order
              /\ disposed' \cap live' = {} ]_vars

\* A pass over a parent with two children kept one and deleted the other
\* together with nothing else.
C20_Witness ==
    /\ passes # << >>
    /\ Len(passes[1].order) = 1
    /\ creates = << >>
    /\ Cardinality(disposed) = 1
    /\ ckids[passes[1].parent] = passes[1].order
    /\ disposed \cap live = {}
====
